---- MODULE Spec2Model ----
(***************************************************************************)
(* Trace graph of autogen.trace: the node registry (GRAPH), node           *)
(* construction and edge addition (nodes.py), and the propagators          *)
(* (propagators/propagators.py, propagators/node_propagator.py).           *)
(*                                                                         *)
(* A Python object is identified by its index in `nodes` (creation order). *)
(* A string is a sequence of one-character tokens; ":" is the separator    *)
(* Registry.register splits on, "0".."9" are the decimal digits.           *)
(* An exception that escapes a call is recorded in last.err; the mutations *)
(* made before the raise stay, as they do in Python.                       *)
(***************************************************************************)
EXTENDS Integers, Sequences, FiniteSets, TLC

\* objects constructed in one episode
MaxNodes == 3
\* edges in the graph above which no further edge is requested
MaxEdges == 2
\* positional plus keyed arguments of one MessageNode
MaxArgs == 2
\* feedback objects queued on the nodes of the graph
MaxFeedback == 2
\* nodes of a graph that a propagator is called on
MaxTraced == 2
\* Propagator.register calls made on one propagator
MaxRegs == 2
\* (level, node) pairs in the graph list of a NodeFeedback operand
MaxGraph == 2
\* the same, for each of three operands that are summed
MaxGraph3 == 1

VARIABLES nodes,     \* the live node objects, by identity
          regNodes,  \* GRAPH._nodes : name -> node
          levels,    \* GRAPH._levels : level -> list of nodes (a defaultdict)
          override,  \* Propagator.override : operator name -> propagate function
          last,      \* the call that was made last and how it ended
          operands,  \* the NodeFeedback objects at hand for NodeFeedback.__add__
          visited,   \* the nodes the running backward pass has propagated from, in order
          regLog     \* the Propagator.register calls made so far, in order

vars == <<nodes, regNodes, levels, override, last, operands, visited, regLog>>

None == <<>>
NoErr == "none"

\* ------------------------------------------------------------------ strings
Digits == <<"0", "1", "2", "3", "4", "5", "6", "7", "8", "9">>

IsDigit(c) == \E d \in 1..10 : Digits[d] = c

DigitVal(c) == (CHOOSE d \in 1..10 : Digits[d] = c) - 1

\* str.split(':') : the parts between the separators, empty parts included
RECURSIVE Split(_)
Split(s) ==
  IF \A i \in 1..Len(s) : s[i] # ":"
  THEN <<s>>
  ELSE LET i == CHOOSE k \in 1..Len(s) :
                  s[k] = ":" /\ \A j \in 1..(k - 1) : s[j] # ":"
       IN  <<SubSeq(s, 1, i - 1)>> \o Split(SubSeq(s, i + 1, Len(s)))

\* int(s) for a string of decimal digits
RECURSIVE StrToInt(_)
StrToInt(s) ==
  IF Len(s) = 0 THEN 0
  ELSE 10 * StrToInt(SubSeq(s, 1, Len(s) - 1)) + DigitVal(s[Len(s)])

\* str(n) for n >= 0
RECURSIVE IntToStr(_)
IntToStr(n) ==
  IF n < 10 THEN <<Digits[n + 1]>>
  ELSE IntToStr(n \div 10) \o <<Digits[(n % 10) + 1]>>

\* ------------------------------------------------------------------ lists
InList(x, s) == \E i \in 1..Len(s) : s[i] = x

Count(x, s) == Cardinality({i \in 1..Len(s) : s[i] = x})

\* list.remove(x) : drops the first occurrence
ListRemove(s, x) ==
  LET i == CHOOSE k \in 1..Len(s) : s[k] = x /\ \A j \in 1..(k - 1) : s[j] # x
  IN  SubSeq(s, 1, i - 1) \o SubSeq(s, i + 1, Len(s))

Max(a, b) == IF a >= b THEN a ELSE b

\* defaultdict(list).__getitem__ : a missing key is created with []
DefaultGet(d, k) == IF k \in DOMAIN d THEN d ELSE [j \in DOMAIN d \cup {k} |-> IF j = k THEN <<>> ELSE d[j]]

DictSet(d, k, v) == [j \in DOMAIN d \cup {k} |-> IF j = k THEN v ELSE d[j]]

\* ------------------------------------------------------------------ Registry
\* A graph state threaded through the calls of one handler.
GraphState(ns, rn, lv, e) == [nodes |-> ns, regNodes |-> rn, levels |-> lv, err |-> e]

\* register with the two-part assertion left out
register_unchecked(g, id) ==
  LET nm == g.nodes[id].name
      parts == Split(nm)
  IN  IF nm \in DOMAIN g.regNodes /\ Len(parts) # 2
      THEN [g EXCEPT !.err = "ValueError"]
      ELSE
        LET nm2 == IF nm \in DOMAIN g.regNodes
                   THEN parts[1] \o <<":">> \o IntToStr(StrToInt(parts[2]) + 1)
                   ELSE nm
            ns2 == [g.nodes EXCEPT ![id].name = nm2]
            lv1 == DefaultGet(g.levels, ns2[id].level)
            lv2 == [lv1 EXCEPT ![ns2[id].level] = Append(@, id)]
        IN  [g EXCEPT !.nodes = ns2,
                      !.regNodes = DictSet(g.regNodes, nm2, id),
                      !.levels = lv2]

\* Registry.register(node)
register(g, id) ==
  LET nm == g.nodes[id].name
      parts == Split(nm)
  IN  IF Len(parts) # 2 THEN [g EXCEPT !.err = "AssertionError"]
      ELSE IF nm \in DOMAIN g.regNodes /\ ~(Len(parts[2]) > 0 /\ \A i \in 1..Len(parts[2]) : IsDigit(parts[2][i]))
      THEN [g EXCEPT !.err = "ValueError"]
      ELSE
        LET nm2 == IF nm \in DOMAIN g.regNodes
                   THEN parts[1] \o <<":">> \o IntToStr(StrToInt(parts[2]) + 1)
                   ELSE nm
            ns2 == [g.nodes EXCEPT ![id].name = nm2]
            lv1 == DefaultGet(g.levels, ns2[id].level)
            lv2 == [lv1 EXCEPT ![ns2[id].level] = Append(@, id)]
        IN  [g EXCEPT !.nodes = ns2,
                      !.regNodes = DictSet(g.regNodes, nm2, id),
                      !.levels = lv2]

\* Registry.get(name)
RegistryGet(name) == IF name \in DOMAIN regNodes THEN regNodes[name] ELSE 0

\* ------------------------------------------------------------------ AbstractNode
\* _update_level with the "Some levels are empty" assertion left out
update_level_unchecked(g, self, new_level) ==
  LET old == g.nodes[self].level
      lv0 == DefaultGet(g.levels, old)
  IN  IF ~InList(self, lv0[old])
      THEN [g EXCEPT !.levels = lv0, !.err = "ValueError"]
      ELSE
        LET lv1 == [lv0 EXCEPT ![old] = ListRemove(@, self)]
            lv2 == DefaultGet(lv1, new_level)
        IN  [g EXCEPT !.levels = [lv2 EXCEPT ![new_level] = Append(@, self)]]

\* _update_level that also stores the new level in self._level
update_level_assigning(g, self, new_level) ==
  LET old == g.nodes[self].level
      lv0 == DefaultGet(g.levels, old)
  IN  IF ~InList(self, lv0[old])
      THEN [g EXCEPT !.levels = lv0, !.err = "ValueError"]
      ELSE
        LET lv1 == [lv0 EXCEPT ![old] = ListRemove(@, self)]
            lv2 == DefaultGet(lv1, new_level)
            lv3 == [lv2 EXCEPT ![new_level] = Append(@, self)]
            n   == Cardinality(DOMAIN lv3)
            lv4 == [j \in DOMAIN lv3 \cup 0..(n - 1) |-> IF j \in DOMAIN lv3 THEN lv3[j] ELSE <<>>]
        IN  IF \A i \in 0..(n - 1) : Len(lv4[i]) > 0
            THEN [g EXCEPT !.levels = lv3, !.nodes[self].level = new_level]
            ELSE [g EXCEPT !.levels = lv4, !.err = "AssertionError"]

\* AbstractNode._update_level(new_level)
update_level(g, self, new_level) ==
  LET old == g.nodes[self].level
      lv0 == DefaultGet(g.levels, old)
  IN  IF ~InList(self, lv0[old])
      THEN [g EXCEPT !.levels = lv0, !.err = "ValueError"]
      ELSE
        LET lv1 == [lv0 EXCEPT ![old] = ListRemove(@, self)]
            lv2 == DefaultGet(lv1, new_level)
            lv3 == [lv2 EXCEPT ![new_level] = Append(@, self)]
            n   == Cardinality(DOMAIN lv3)
            \* the assert reads GRAPH._levels[i] for i in range(len(GRAPH._levels))
            lv4 == [j \in DOMAIN lv3 \cup 0..(n - 1) |-> IF j \in DOMAIN lv3 THEN lv3[j] ELSE <<>>]
        IN  IF \A i \in 0..(n - 1) : Len(lv4[i]) > 0
            THEN [g EXCEPT !.levels = lv3]
            ELSE [g EXCEPT !.levels = lv4, !.err = "AssertionError"]

\* add_child appending self to child._children instead of child._parents
add_child_wrong_list(g, self, child) ==
  IF InList(self, g.nodes[child].parents)
  THEN [g EXCEPT !.err = "AssertionError"]
  ELSE
    LET g1 == [g EXCEPT !.nodes[child].children = Append(@, self)]
    IN  IF InList(child, g1.nodes[self].children)
        THEN [g1 EXCEPT !.err = "AssertionError"]
        ELSE
          LET g2 == [g1 EXCEPT !.nodes[self].children = Append(@, child)]
          IN  update_level(g2, self, Max(g2.nodes[self].level, g2.nodes[child].level + 1))

\* add_child with the "already a parent" assertion left out
add_child_one_check(g, self, child) ==
  LET g1 == [g EXCEPT !.nodes[child].parents = Append(@, self)]
  IN  IF InList(child, g1.nodes[self].children)
      THEN [g1 EXCEPT !.err = "AssertionError"]
      ELSE
        LET g2 == [g1 EXCEPT !.nodes[self].children = Append(@, child)]
        IN  update_level(g2, self, Max(g2.nodes[self].level, g2.nodes[child].level + 1))

\* add_child updating the level between the two appends
add_child_level_between(g, self, child) ==
  IF InList(self, g.nodes[child].parents)
  THEN [g EXCEPT !.err = "AssertionError"]
  ELSE
    LET g1 == [g EXCEPT !.nodes[child].parents = Append(@, self)]
    IN  IF InList(child, g1.nodes[self].children)
        THEN [g1 EXCEPT !.err = "AssertionError"]
        ELSE
          LET g2 == update_level(g1, self, Max(g1.nodes[self].level, g1.nodes[child].level + 1))
          IN  IF g2.err # NoErr THEN g2
              ELSE [g2 EXCEPT !.nodes[self].children = Append(@, child)]

\* AbstractNode.add_child(child)
add_child(g, self, child) ==
  IF InList(self, g.nodes[child].parents)
  THEN [g EXCEPT !.err = "AssertionError"]
  ELSE
    LET g1 == [g EXCEPT !.nodes[child].parents = Append(@, self)]
    IN  IF InList(child, g1.nodes[self].children)
        THEN [g1 EXCEPT !.err = "AssertionError"]
        ELSE
          LET g2 == [g1 EXCEPT !.nodes[self].children = Append(@, child)]
          IN  update_level(g2, self, Max(g2.nodes[self].level, g2.nodes[child].level + 1))

\* AbstractNode.add_parent(parent)
add_parent(g, self, parent) == add_child(g, parent, self)

\* the two loops of MessageNode.__init__ : the first raise ends them
RECURSIVE AddChildren(_, _, _)
AddChildren(g, self, vs) ==
  IF Len(vs) = 0 \/ g.err # NoErr THEN g
  ELSE AddChildren(add_child(g, self, Head(vs)), self, Tail(vs))

\* ------------------------------------------------------------------ propagators
\* A feedback value of SumPropagator: a Python int or a Python str.
IntV(i) == [t |-> "int", i |-> i, s |-> <<>>]
StrV(s) == [t |-> "str", i |-> 0, s |-> s]

\* the reserved key "user" of a feedback map; the other keys are nodes
UserKey == 0

\* node.feedback is a dict in insertion order: a list of (key, list) entries
HasKey(fb, k) == \E i \in 1..Len(fb) : fb[i].k = k

Lookup(fb, k) == fb[CHOOSE i \in 1..Len(fb) : fb[i].k = k].v

\* node.feedback[k].append(v)
FeedbackAppend(fb, k, v) ==
  IF HasKey(fb, k)
  THEN [i \in 1..Len(fb) |-> IF fb[i].k = k THEN [fb[i] EXCEPT !.v = Append(@, v)] ELSE fb[i]]
  ELSE Append(fb, [k |-> k, v |-> <<v>>])

ParentSet(ns, n) == {ns[n].parents[i] : i \in 1..Len(ns[n].parents)}

ChildSet(ns, n) == {ns[n].children[i] : i \in 1..Len(ns[n].children)}

\* get_op_name(description): the token between the first "[" and the "]" after it
get_op_name(d) ==
  LET i == CHOOSE k \in 1..Len(d) : d[k] = "[" /\ \A j \in 1..(k - 1) : d[j] # "["
      e == CHOOSE k \in (i + 1)..Len(d) : d[k] = "]" /\ \A j \in (i + 1)..(k - 1) : d[j] # "]"
  IN  SubSeq(d, i + 1, e - 1)

\* what a propagation rule did: the exception it raised, or the object it returned
Raised(ran, e) == [err |-> e, ran |-> ran, isdict |-> FALSE, ret |-> <<>>]
Returned(ran, isdict, ret) == [err |-> NoErr, ran |-> ran, isdict |-> isdict, ret |-> ret]

\* "".join(list) and sum(list)
RECURSIVE Join(_)
Join(l) == IF Len(l) = 0 THEN <<>> ELSE Head(l).s \o Join(Tail(l))

RECURSIVE SumInts(_)
SumInts(l) == IF Len(l) = 0 THEN 0 ELSE Head(l).i + SumInts(Tail(l))

\* _propagate delivering the first feedback value instead of the reduction
SumPropagator_propagate_first(ns, child) ==
  LET fb == ns[child].feedback
      to_parents(v) == Returned("_propagate", TRUE, [p \in ParentSet(ns, child) |-> v])
  IN  IF HasKey(fb, UserKey)
      THEN IF Len(fb) # 1 \/ Len(Lookup(fb, UserKey)) # 1
           THEN Raised("_propagate", "AssertionError")
           ELSE to_parents(Lookup(fb, UserKey)[1])
      ELSE IF \E i \in 1..Len(fb) : Len(fb[i].v) = 0
           THEN Raised("_propagate", "IndexError")
           ELSE LET feedback_list == [i \in 1..Len(fb) |-> fb[i].v[1]]
                IN  IF Len(feedback_list) = 0
                    THEN Raised("_propagate", "AssertionError")
                    ELSE IF \E i \in 1..Len(feedback_list) : feedback_list[i].t # feedback_list[1].t
                    THEN Raised("_propagate", "AssertionError")
                    ELSE IF feedback_list[1].t \in {"str", "int"}
                    THEN to_parents(feedback_list[1])
                    ELSE Raised("_propagate", "TypeError")

\* _propagate without the same-type assertion, reducing str(f) or int-like f
SumPropagator_propagate_coercing(ns, child) ==
  LET fb == ns[child].feedback
      to_parents(v) == Returned("_propagate", TRUE, [p \in ParentSet(ns, child) |-> v])
  IN  IF HasKey(fb, UserKey)
      THEN IF Len(fb) # 1 \/ Len(Lookup(fb, UserKey)) # 1
           THEN Raised("_propagate", "AssertionError")
           ELSE to_parents(Lookup(fb, UserKey)[1])
      ELSE IF \E i \in 1..Len(fb) : Len(fb[i].v) = 0
           THEN Raised("_propagate", "IndexError")
           ELSE LET feedback_list == [i \in 1..Len(fb) |-> fb[i].v[1]]
                IN  IF Len(feedback_list) = 0
                    THEN Raised("_propagate", "AssertionError")
                    ELSE IF \E i \in 1..Len(feedback_list) : feedback_list[i].t \notin {"str", "int"}
                    THEN Raised("_propagate", "TypeError")
                    ELSE IF feedback_list[1].t = "str"
                    THEN to_parents(StrV(Join(feedback_list)))
                    ELSE to_parents(IntV(SumInts(feedback_list)))

\* SumPropagator._propagate(child)
SumPropagator_propagate(ns, child) ==
  LET fb == ns[child].feedback
      to_parents(v) == Returned("_propagate", TRUE, [p \in ParentSet(ns, child) |-> v])
  IN  IF HasKey(fb, UserKey)
      THEN IF Len(fb) # 1 \/ Len(Lookup(fb, UserKey)) # 1
           THEN Raised("_propagate", "AssertionError")
           ELSE to_parents(Lookup(fb, UserKey)[1])
      ELSE IF \E i \in 1..Len(fb) : Len(fb[i].v) = 0
           THEN Raised("_propagate", "IndexError")
           ELSE LET feedback_list == [i \in 1..Len(fb) |-> fb[i].v[1]]
                IN  IF Len(feedback_list) = 0
                    THEN Raised("_propagate", "AssertionError")
                    ELSE IF \E i \in 1..Len(feedback_list) : feedback_list[i].t # feedback_list[1].t
                    THEN Raised("_propagate", "AssertionError")
                    ELSE IF feedback_list[1].t = "str"
                    THEN to_parents(StrV(Join(feedback_list)))
                    ELSE IF feedback_list[1].t = "int"
                    THEN to_parents(IntV(SumInts(feedback_list)))
                    \* sum() starts from 0, and int + NodeFeedback is not defined
                    ELSE Raised("_propagate", "TypeError")

\* The propagate functions a caller registers as overrides: one that returns a
\* value for each parent, one that returns an entry for "user" besides, one
\* that returns the empty dict, and one that returns None.
OverrideFns == {"each_parent", "each_parent_and_user", "empty_dict", "returns_none"}

\* self.override[operator_name](child): the function that ran is recorded
RunOverride(fn, ns, child) ==
  LET each == [p \in ParentSet(ns, child) |-> IntV(0)]
  IN  CASE fn = "each_parent" -> Returned(fn, TRUE, each)
        [] fn = "each_parent_and_user" ->
             Returned(fn, TRUE, [k \in ParentSet(ns, child) \cup {UserKey} |-> IntV(0)])
        [] fn = "empty_dict" -> Returned(fn, TRUE, <<>>)
        [] OTHER -> Returned(fn, FALSE, <<>>)

\* propagate looking the whole description up in self.override
propagate_by_description(ov, ns, child) ==
  IF ns[child].mapping \in DOMAIN ov
  THEN RunOverride(ov[ns[child].mapping], ns, child)
  ELSE SumPropagator_propagate(ns, child)

\* Propagator.propagate(child)
propagate(ov, ns, child) ==
  LET operator_name == get_op_name(ns[child].mapping)
  IN  IF operator_name \in DOMAIN ov
      THEN RunOverride(ov[operator_name], ns, child)
      ELSE SumPropagator_propagate(ns, child)

\* __call__ with the "at most length 1" assertion left out
call_unchecked(ov, ns, child) ==
  IF ns[child].kind # "MessageNode" THEN Raised("none", "AssertionError")
  ELSE LET r == propagate(ov, ns, child)
       IN  IF r.err # NoErr THEN r
           ELSE IF ~r.isdict THEN Raised(r.ran, "AssertionError")
           ELSE IF \E p \in ParentSet(ns, child) : p \notin DOMAIN r.ret
           THEN Raised(r.ran, "AssertionError")
           ELSE r

\* AbstractPropagator.__call__(child)
call(ov, ns, child) ==
  IF ns[child].kind # "MessageNode" THEN Raised("none", "AssertionError")
  ELSE IF \E i \in 1..Len(ns[child].feedback) : Len(ns[child].feedback[i].v) > 1
  THEN Raised("none", "AssertionError")
  ELSE LET r == propagate(ov, ns, child)
       IN  IF r.err # NoErr THEN r
           ELSE IF ~r.isdict THEN Raised(r.ran, "AssertionError")
           ELSE IF \E p \in ParentSet(ns, child) : p \notin DOMAIN r.ret
           THEN Raised(r.ran, "AssertionError")
           ELSE r

\* ------------------------------------------------------------------ NodeFeedback
\* the Python object None as a feedback value
NoneV == [t |-> "NoneType", i |-> 0, s |-> <<>>]

\* bool(v)
Truthy(v) == CASE v.t = "int" -> v.i # 0
               [] v.t = "str" -> Len(v.s) > 0
               [] v.t = "NoneType" -> FALSE
               [] OTHER -> TRUE

\* x or y
Or(x, y) == IF Truthy(x) THEN x ELSE y

\* NodeFeedback(graph=graph, user_feedback=user_feedback); graph is a list
\* of (level, node) pairs
NodeFeedback(graph, user_feedback) ==
  [t |-> "NodeFeedback", graph |-> graph, user_feedback |-> user_feedback]

Entry(level, node) == [level |-> level, node |-> node]

\* heapq.merge(a, b, key=lambda x: x[0]): the smaller head first, the head
\* of a on a tie; neither input is sorted by it
RECURSIVE Merge(_, _)
Merge(a, b) ==
  IF Len(a) = 0 THEN b
  ELSE IF Len(b) = 0 THEN a
  ELSE IF Head(b).level < Head(a).level
  THEN <<Head(b)>> \o Merge(a, Tail(b))
  ELSE <<Head(a)>> \o Merge(Tail(a), b)

\* the names of the nodes of a graph list
Names(ns, graph) == {ns[graph[i].node].name : i \in 1..Len(graph)}

\* how a call on feedback objects ended: the exception, or the object returned
Failed(e) == [err |-> e, ret |-> NoneV]
Result(v) == [err |-> NoErr, ret |-> v]

\* __add__ without the "should be the same" assertion
NodeFeedback_add_unchecked(ns, self, other) ==
  IF self.user_feedback = NoneV /\ other.user_feedback = NoneV
  THEN Failed("AssertionError")
  ELSE LET user_feedback ==
             IF self.user_feedback = NoneV \/ other.user_feedback = NoneV
             THEN Or(self.user_feedback, other.user_feedback)
             ELSE self.user_feedback
           other_names == Names(ns, other.graph)
           complement == SelectSeq(self.graph, LAMBDA x : ns[x.node].name \notin other_names)
       IN  Result(NodeFeedback(Merge(complement, other.graph), user_feedback))

\* __add__ merging self.graph itself, not its complement
NodeFeedback_add_no_complement(ns, self, other) ==
  IF self.user_feedback = NoneV /\ other.user_feedback = NoneV
  THEN Failed("AssertionError")
  ELSE IF self.user_feedback # NoneV /\ other.user_feedback # NoneV
          /\ self.user_feedback # other.user_feedback
  THEN Failed("AssertionError")
  ELSE LET user_feedback ==
             IF self.user_feedback = NoneV \/ other.user_feedback = NoneV
             THEN Or(self.user_feedback, other.user_feedback)
             ELSE self.user_feedback
       IN  Result(NodeFeedback(Merge(self.graph, other.graph), user_feedback))

\* __add__ dropping from the right operand the names of the left one
NodeFeedback_add_keep_left(ns, self, other) ==
  IF self.user_feedback = NoneV /\ other.user_feedback = NoneV
  THEN Failed("AssertionError")
  ELSE IF self.user_feedback # NoneV /\ other.user_feedback # NoneV
          /\ self.user_feedback # other.user_feedback
  THEN Failed("AssertionError")
  ELSE LET user_feedback ==
             IF self.user_feedback = NoneV \/ other.user_feedback = NoneV
             THEN Or(self.user_feedback, other.user_feedback)
             ELSE self.user_feedback
           self_names == Names(ns, self.graph)
           complement == SelectSeq(other.graph, LAMBDA x : ns[x.node].name \notin self_names)
       IN  Result(NodeFeedback(Merge(self.graph, complement), user_feedback))

\* NodeFeedback.__add__(self, other)
NodeFeedback_add(ns, self, other) ==
  IF self.user_feedback = NoneV /\ other.user_feedback = NoneV
  THEN Failed("AssertionError")
  ELSE IF self.user_feedback # NoneV /\ other.user_feedback # NoneV
          /\ self.user_feedback # other.user_feedback
  THEN Failed("AssertionError")
  ELSE LET user_feedback ==
             IF self.user_feedback = NoneV \/ other.user_feedback = NoneV
             THEN Or(self.user_feedback, other.user_feedback)
             ELSE self.user_feedback
           other_names == Names(ns, other.graph)
           complement == SelectSeq(self.graph, LAMBDA x : ns[x.node].name \notin other_names)
       IN  Result(NodeFeedback(Merge(complement, other.graph), user_feedback))

\* sum(values, start): start + values[0] + values[1] + ... ; a raise ends it
RECURSIVE SumFrom(_, _, _)
SumFrom(ns, start, values) ==
  IF Len(values) = 0 THEN Result(start)
  ELSE LET r == NodeFeedback_add(ns, start, Head(values))
       IN  IF r.err # NoErr THEN r ELSE SumFrom(ns, r.ret, Tail(values))

\* aggregate summing from an empty NodeFeedback: sum(values, NodeFeedback([], None))
aggregate_from_empty(ns, feedback) ==
  IF \E i \in 1..Len(feedback) : Len(feedback[i].v) # 1
  THEN Failed("AssertionError")
  ELSE IF \E i \in 1..Len(feedback) : feedback[i].v[1].t # "NodeFeedback"
  THEN Failed("AssertionError")
  ELSE LET values == [i \in 1..Len(feedback) |-> feedback[i].v[1]]
       IN  IF Len(values) = 0 THEN Result(NodeFeedback(<<>>, NoneV))
           ELSE SumFrom(ns, values[1], Tail(values))

\* NodePropagator.aggregate(feedback)
aggregate(ns, feedback) ==
  IF \E i \in 1..Len(feedback) : Len(feedback[i].v) # 1
  THEN Failed("AssertionError")
  ELSE IF \E i \in 1..Len(feedback) : feedback[i].v[1].t # "NodeFeedback"
  THEN Failed("AssertionError")
  ELSE LET values == [i \in 1..Len(feedback) |-> feedback[i].v[1]]
       IN  IF Len(values) = 0 THEN Failed("IndexError")
           ELSE SumFrom(ns, values[1], Tail(values))

\* the local graph slice of _propagate: a (level, node) pair for each parent,
\* then one for the node
LocalGraph(ns, child) ==
  [i \in 1..Len(ns[child].parents) |-> Entry(ns[ns[child].parents[i]].level, ns[child].parents[i])]
  \o <<Entry(ns[child].level, child)>>

\* _propagate whose graph slice leaves the node itself out
NodePropagator_propagate_parents_only(ns, child) ==
  LET fb == ns[child].feedback
      graph == SubSeq(LocalGraph(ns, child), 1, Len(ns[child].parents))
      to_parents(v) == Returned("_propagate", TRUE, [p \in ParentSet(ns, child) |-> v])
  IN  IF HasKey(fb, UserKey)
      THEN IF Len(fb) # 1 \/ Len(Lookup(fb, UserKey)) # 1
           THEN Raised("_propagate", "AssertionError")
           ELSE to_parents(NodeFeedback(graph, Lookup(fb, UserKey)[1]))
      ELSE LET a == aggregate(ns, fb)
           IN  IF a.err # NoErr THEN Raised("_propagate", a.err)
               ELSE LET r == NodeFeedback_add(ns, a.ret, NodeFeedback(graph, NoneV))
                    IN  IF r.err # NoErr THEN Raised("_propagate", r.err)
                        ELSE to_parents(r.ret)

\* NodePropagator._propagate(child)
NodePropagator_propagate(ns, child) ==
  LET fb == ns[child].feedback
      graph == LocalGraph(ns, child)
      to_parents(v) == Returned("_propagate", TRUE, [p \in ParentSet(ns, child) |-> v])
  IN  IF HasKey(fb, UserKey)
      THEN IF Len(fb) # 1 \/ Len(Lookup(fb, UserKey)) # 1
           THEN Raised("_propagate", "AssertionError")
           ELSE to_parents(NodeFeedback(graph, Lookup(fb, UserKey)[1]))
      ELSE LET a == aggregate(ns, fb)
           IN  IF a.err # NoErr THEN Raised("_propagate", a.err)
               ELSE LET r == NodeFeedback_add(ns, a.ret, NodeFeedback(graph, NoneV))
                    IN  IF r.err # NoErr THEN Raised("_propagate", r.err)
                        ELSE to_parents(r.ret)

\* AbstractPropagator.__call__(child) on a NodePropagator
NodePropagator_call(ov, ns, child) ==
  IF ns[child].kind # "MessageNode" THEN Raised("none", "AssertionError")
  ELSE IF \E i \in 1..Len(ns[child].feedback) : Len(ns[child].feedback[i].v) > 1
  THEN Raised("none", "AssertionError")
  ELSE LET operator_name == get_op_name(ns[child].mapping)
           r == IF operator_name \in DOMAIN ov
                THEN RunOverride(ov[operator_name], ns, child)
                ELSE NodePropagator_propagate(ns, child)
       IN  IF r.err # NoErr THEN r
           ELSE IF ~r.isdict THEN Raised(r.ran, "AssertionError")
           ELSE IF \E p \in ParentSet(ns, child) : p \notin DOMAIN r.ret
           THEN Raised(r.ran, "AssertionError")
           ELSE r

\* ------------------------------------------------------------------ Node data
\* the value a constructor of this model wraps: the dict {} or the str "ab".
\* A dict is its items in insertion order, a str its characters.
ValueOf(vt) ==
  IF vt = "str" THEN [t |-> "str", items |-> <<"a", "b">>]
  ELSE [t |-> "dict", items |-> <<>>]

HasItem(data, key) == \E i \in 1..Len(data.items) : data.items[i].k = key

ItemOf(data, key) == data.items[CHOOSE i \in 1..Len(data.items) : data.items[i].k = key].v

BoolV(b) == [t |-> "bool", i |-> IF b THEN 1 ELSE 0, s |-> <<>>]

\* an iterator, by the sequence it yields
IterV(seq) == [t |-> "iterator", i |-> 0, s |-> seq]

\* a Node stored as a value
NodeV(n) == [t |-> "Node", i |-> n, s |-> <<>>]

\* how an access on a node ended and the graph state it left
Accessed(g, e, ret) ==
  [nodes |-> g.nodes, regNodes |-> g.regNodes, levels |-> g.levels, err |-> e, ret |-> ret]

\* __getitem__ returning the item wrapped in a new Node that consumes self
Node_getitem_traced(g, self, key) ==
  LET data == g.nodes[self].data
  IN  IF data.t = "str" THEN Accessed(g, "TypeError", NoneV)
      ELSE IF ~HasItem(data, key) THEN Accessed(g, "KeyError", NoneV)
      ELSE LET id == Len(g.nodes) + 1
               obj == [name |-> <<"dict", ":", "0">>, level |-> 0, parents |-> <<>>,
                       children |-> <<>>, kind |-> "Node", trainable |-> FALSE,
                       mapping |-> None, feedback |-> <<>>, data |-> ValueOf("dict")]
               g1 == add_child(register([g EXCEPT !.nodes = Append(@, obj)], id), id, self)
           IN  Accessed(g1, g1.err, NodeV(id))

\* Node.__getitem__(key)
Node_getitem(g, self, key) ==
  LET data == g.nodes[self].data
  IN  IF data.t = "str" THEN Accessed(g, "TypeError", NoneV)
      ELSE IF ~HasItem(data, key) THEN Accessed(g, "KeyError", NoneV)
      ELSE Accessed(g, NoErr, ItemOf(data, key))

\* Node.__setitem__(key, value)
Node_setitem(g, self, key, value) ==
  LET data == g.nodes[self].data
      items == IF HasItem(data, key)
               THEN [i \in 1..Len(data.items) |->
                       IF data.items[i].k = key THEN [k |-> key, v |-> value] ELSE data.items[i]]
               ELSE Append(data.items, [k |-> key, v |-> value])
  IN  IF data.t = "str" THEN Accessed(g, "TypeError", NoneV)
      ELSE Accessed([g EXCEPT !.nodes[self].data.items = items], NoErr, NoneV)

\* Node.__delitem__(key)
Node_delitem(g, self, key) ==
  LET data == g.nodes[self].data
  IN  IF data.t = "str" THEN Accessed(g, "TypeError", NoneV)
      ELSE IF ~HasItem(data, key) THEN Accessed(g, "KeyError", NoneV)
      ELSE Accessed([g EXCEPT !.nodes[self].data.items = SelectSeq(@, LAMBDA x : x.k # key)],
                    NoErr, NoneV)

\* Node.__contains__(key), key a one-character str
Node_contains(g, self, key) ==
  LET data == g.nodes[self].data
  IN  IF data.t = "str" THEN Accessed(g, NoErr, BoolV(InList(key, data.items)))
      ELSE Accessed(g, NoErr, BoolV(HasItem(data, key)))

\* Node.__len__()
Node_len(g, self) == Accessed(g, NoErr, IntV(Len(g.nodes[self].data.items)))

\* Node.__iter__()
Node_iter(g, self) ==
  LET data == g.nodes[self].data
  IN  IF data.t = "str" THEN Accessed(g, NoErr, IterV(data.items))
      ELSE Accessed(g, NoErr, IterV([i \in 1..Len(data.items) |-> data.items[i].k]))

\* attribute names looked up on a node that the Node class does not define
DictAttrs == {"keys"}
AttrNames == {"keys", "undefined"}

\* Node.__getattr__(name)
Node_getattr(g, self, name) ==
  IF g.nodes[self].data.t = "dict" /\ name \in DictAttrs
  THEN Accessed(g, NoErr, [t |-> "builtin_function_or_method", i |-> 0, s |-> <<name>>])
  ELSE Accessed(g, "AttributeError", NoneV)

\* ------------------------------------------------------------------ inputs
NameInputs == {None, <<"x", ":", "y">>}
ValueTypes == {"dict"}                              \* type(value).__name__
\* the mapping argument: the descriptions of operators.add and operators.subtract
AddDescription == <<"[", "add", "]", " ", "This is an add operator of x and y.">>
SubtractDescription == <<"[", "subtract", "]", " ", "This is a subtract operator of x and y.">>
Descriptions == {AddDescription, SubtractDescription}

Ids == 1..Len(nodes)

TotalEdges(ns) == LET RECURSIVE Sum(_)
                      Sum(i) == IF i = 0 THEN 0 ELSE Len(ns[i].parents) + Sum(i - 1)
                  IN  Sum(Len(ns))

\* sequences over S of length at most n
RECURSIVE SeqsUpTo(_, _)
SeqsUpTo(S, n) ==
  IF n = 0 THEN {<<>>}
  ELSE LET R == SeqsUpTo(S, n - 1)
       IN  R \cup {Append(r, x) : r \in {q \in R : Len(q) = n - 1}, x \in S}

\* AbstractNode.__init__ up to the GRAPH.register call: the new object
\* src = 0: a raw value of type vt; src > 0: the copy constructor on node src
NewObject(kind, vt, nm, src) ==
  [name     |-> IF src # 0 THEN nodes[src].name
                ELSE IF nm = None THEN <<vt>> \o <<":", "0">>
                ELSE nm \o <<":", "0">>,
   level    |-> 0,
   parents  |-> <<>>,
   children |-> <<>>,
   kind     |-> kind,
   trainable |-> FALSE,
   mapping  |-> None,
   feedback |-> <<>>,
   data     |-> IF src # 0 THEN nodes[src].data ELSE ValueOf(vt)]

\* the call made last: its receiver (0 for a constructor whose object was
\* never registered), its arguments, the exception that escaped it, and for a
\* constructor the name the object had when GRAPH.register was called
Last(op, e, self, args, kw, nm) ==
  [op |-> op, err |-> e, self |-> self, args |-> args, kw |-> kw, name |-> nm,
   ran |-> "none", returned |-> FALSE, ret |-> <<>>]

\* ------------------------------------------------------------------ actions
\* Node(value, name=nm) and ParameterNode(value, name=nm)
NodeInit(kind, vt, nm, src) ==
  /\ Len(nodes) < MaxNodes
  /\ LET id  == Len(nodes) + 1
         obj == NewObject(kind, vt, nm, src)
         g0  == GraphState(Append(nodes, obj), regNodes, levels, NoErr)
         g1  == register(g0, id)
     IN  IF g1.err # NoErr
         THEN /\ UNCHANGED <<nodes, regNodes, levels, override, operands, visited, regLog>>
              /\ last' = Last(kind, g1.err, 0, <<>>, <<>>, obj.name)
         ELSE /\ nodes' = [g1.nodes EXCEPT ![id].trainable = (kind = "ParameterNode")]
              /\ regNodes' = g1.regNodes
              /\ levels' = g1.levels
              /\ UNCHANGED <<override, operands, visited, regLog>>
              /\ last' = Last(kind, NoErr, id, <<>>, <<>>, obj.name)

\* MessageNode(value, mapping, args=args, kwargs=kw, name=nm)
MessageNodeInit(vt, nm, src, mapping, args, kw) ==
  /\ Len(nodes) < MaxNodes
  /\ TotalEdges(nodes) + Len(args) + Len(kw) <= MaxEdges
  /\ LET id  == Len(nodes) + 1
         obj == NewObject("MessageNode", vt, nm, src)
         g0  == GraphState(Append(nodes, obj), regNodes, levels, NoErr)
         g1  == register(g0, id)
     IN  IF g1.err # NoErr
         THEN /\ UNCHANGED <<nodes, regNodes, levels, override, operands, visited, regLog>>
              /\ last' = Last("MessageNode", g1.err, 0, args, kw, obj.name)
         ELSE LET g2 == [g1 EXCEPT !.nodes[id].mapping = mapping]
                  g3 == AddChildren(g2, id, args)
                  g4 == AddChildren(g3, id, kw)
              IN  /\ nodes' = g4.nodes
                  /\ regNodes' = g4.regNodes
                  /\ levels' = g4.levels
                  /\ UNCHANGED <<override, operands, visited, regLog>>
                  /\ last' = Last("MessageNode", g4.err, id, args, kw, obj.name)

\* self.add_child(child) called on two live nodes
AddChildCall(self, child) ==
  /\ TotalEdges(nodes) < MaxEdges
  /\ LET g == add_child(GraphState(nodes, regNodes, levels, NoErr), self, child)
     IN  /\ nodes' = g.nodes
         /\ regNodes' = g.regNodes
         /\ levels' = g.levels
         /\ UNCHANGED <<override, operands, visited, regLog>>
         /\ last' = Last("add_child", g.err, self, <<child>>, <<>>, None)

\* self.add_parent(parent) called on two live nodes
AddParentCall(self, parent) ==
  /\ TotalEdges(nodes) < MaxEdges
  /\ LET g == add_parent(GraphState(nodes, regNodes, levels, NoErr), self, parent)
     IN  /\ nodes' = g.nodes
         /\ regNodes' = g.regNodes
         /\ levels' = g.levels
         /\ UNCHANGED <<override, operands, visited, regLog>>
         /\ last' = Last("add_parent", g.err, self, <<parent>>, <<>>, None)

\* the argument lists of a MessageNode: positional args, then keyed values
ArgSplits == UNION {{<<SubSeq(av, 1, j), SubSeq(av, j + 1, Len(av))>> : j \in 0..Len(av)} :
                       av \in SeqsUpTo(Ids, MaxArgs)}

NewNode == \E vt \in ValueTypes, nm \in NameInputs : NodeInit("Node", vt, nm, 0)

\* Node(value) with value a Node: the copy constructor
CopyNode == \E src \in Ids : NodeInit("Node", "dict", None, src)

NewParameterNode == \E vt \in ValueTypes, nm \in NameInputs : NodeInit("ParameterNode", vt, nm, 0)

NewMessageNode ==
  \E vt \in ValueTypes, nm \in NameInputs, as \in ArgSplits :
     MessageNodeInit(vt, nm, 0, AddDescription, as[1], as[2])

\* a leaf and an operation node with default names, for the edge operations
MakeLeaf == NodeInit("Node", "dict", None, 0)

MakeOp == \E av \in SeqsUpTo(Ids, 1) : MessageNodeInit("dict", None, 0, AddDescription, av, <<>>)

AddChild == \E self \in Ids, child \in Ids : AddChildCall(self, child)

AddParent == \E self \in Ids, parent \in Ids : AddParentCall(self, parent)

\* the nodes of a traced graph: a leaf, and an operation node of either
\* description over at most one existing node
TraceLeaf == Len(nodes) < MaxTraced /\ NodeInit("Node", "dict", None, 0)

TraceOp == /\ Len(nodes) < MaxTraced
           /\ \E d \in Descriptions, av \in SeqsUpTo(Ids, 1) :
                 MessageNodeInit("dict", None, 0, d, av, <<>>)

FeedbackValues == {IntV(1), StrV(<<"A">>)}

TotalFeedback(ns) ==
  LET RECURSIVE Entries(_)
      Entries(fb) == IF Len(fb) = 0 THEN 0 ELSE Len(Head(fb).v) + Entries(Tail(fb))
      RECURSIVE Sum(_)
      Sum(i) == IF i = 0 THEN 0 ELSE Entries(ns[i].feedback) + Sum(i - 1)
  IN  Sum(Len(ns))

\* the driver queues feedback v on operation node n, under "user" or under
\* one of the nodes in n.parents
DepositFeedback(n, k, v) ==
  /\ TotalFeedback(nodes) < MaxFeedback
  /\ nodes' = [nodes EXCEPT ![n].feedback = FeedbackAppend(@, k, v)]
  /\ last' = Last("deposit", NoErr, 0, <<>>, <<>>, None)
  /\ UNCHANGED <<regNodes, levels, override, operands, visited, regLog>>

\* Propagator.register(operator_name, propagate_function)
RegisterCall(operator_name, fn) ==
  /\ override' = DictSet(override, operator_name, fn)
  /\ last' = Last("register", NoErr, 0, <<>>, <<>>, None)
  /\ UNCHANGED <<nodes, regNodes, levels, operands, visited>>

\* propagator(child) on a SumPropagator
PropagatorCall(child) ==
  LET r == call(override, nodes, child)
  IN  /\ last' = [op |-> "propagate", err |-> r.err, self |-> child, args |-> <<>>,
                  kw |-> <<>>, name |-> None, ran |-> r.ran,
                  returned |-> (r.err = NoErr), ret |-> r.ret]
      /\ UNCHANGED <<nodes, regNodes, levels, override, operands, visited, regLog>>

Deposit == \E n \in {m \in Ids : nodes[m].kind = "MessageNode"}, v \in FeedbackValues :
             \E k \in {UserKey} \cup ParentSet(nodes, n) :
                DepositFeedback(n, k, v)

\* the users of the feedback objects the consumers deliver
UserFeedbacks == {NoneV, StrV(<<"A">>)}

\* consumer k of node n delivers a NodeFeedback that names k
DepositNodeFeedback ==
  \E n \in Ids : \E k \in ParentSet(nodes, n), u \in UserFeedbacks :
     DepositFeedback(n, k, NodeFeedback(<<Entry(nodes[k].level, k)>>, u))

\* NodePropagator().aggregate(n.feedback)
AggregateCall(n) ==
  LET r == aggregate(nodes, nodes[n].feedback)
  IN  /\ last' = [Last("aggregate", r.err, n, <<>>, <<>>, None) EXCEPT
                     !.returned = (r.err = NoErr),
                     !.ret = IF r.err = NoErr THEN r.ret ELSE <<>>]
      /\ UNCHANGED <<nodes, regNodes, levels, override, operands, visited, regLog>>

Aggregate == \E n \in Ids : AggregateCall(n)

\* the critiques a user seeds an output node with
SeedValues == {StrV(<<"A">>), StrV(<<"B">>)}

\* optimizer.zero_feedback(): every feedback map is cleared, a new pass begins
ZeroFeedback ==
  /\ visited # <<>> \/ TotalFeedback(nodes) > 0
  /\ nodes' = [n \in Ids |-> [nodes[n] EXCEPT !.feedback = <<>>]]
  /\ visited' = <<>>
  /\ last' = Last("zero_feedback", NoErr, 0, <<>>, <<>>, None)
  /\ UNCHANGED <<regNodes, levels, override, operands, regLog>>

\* the pass is seeded: "user" feedback on an operation node
Seed ==
  \E n \in {m \in Ids : nodes[m].kind = "MessageNode"}, v \in SeedValues :
     DepositFeedback(n, UserKey, v)

\* the results of propagator(n) are deposited: parent.feedback[n].append(f)
RECURSIVE DepositAll(_, _, _, _)
DepositAll(ns, n, ps, ret) ==
  IF Len(ps) = 0 THEN ns
  ELSE DepositAll([ns EXCEPT ![Head(ps)].feedback = FeedbackAppend(@, n, ret[Head(ps)])],
                  n, Tail(ps), ret)

\* one step of the backward pass: the propagator is invoked on a node that
\* holds feedback and was not visited, and its results are deposited
Visit(n) ==
  /\ ~InList(n, visited)
  /\ Len(nodes[n].feedback) > 0
  /\ LET r == call(override, nodes, n)
     IN  /\ last' = [op |-> "propagate", err |-> r.err, self |-> n, args |-> <<>>,
                     kw |-> <<>>, name |-> None, ran |-> r.ran,
                     returned |-> (r.err = NoErr), ret |-> r.ret]
         /\ IF r.err = NoErr
            THEN /\ nodes' = DepositAll(nodes, n, nodes[n].parents, r.ret)
                 /\ visited' = Append(visited, n)
            ELSE UNCHANGED <<nodes, visited>>
  /\ UNCHANGED <<regNodes, levels, override, operands, regLog>>

Backward == \E n \in Ids : Visit(n)

\* the (level, node) pairs the operands are made of: nodes 2 and 3 of the
\* fan bear one name, node 2 occurs at two levels
GraphEntries == {Entry(0, 1), Entry(0, 2), Entry(1, 2), Entry(1, 3)}

\* user feedback of an operand: None, a falsy value, a truthy value
AddUsers == {NoneV, IntV(0), StrV(<<"A">>)}

NodeFeedbacks(n) ==
  {NodeFeedback(g, u) : g \in SeqsUpTo(GraphEntries, n), u \in AddUsers}

\* operands[i] + operands[j]
AddCall(i, j) ==
  LET r == NodeFeedback_add(nodes, operands[i], operands[j])
  IN  /\ last' = [Last("__add__", r.err, 0, <<i, j>>, <<>>, None) EXCEPT
                     !.returned = (r.err = NoErr),
                     !.ret = IF r.err = NoErr THEN r.ret ELSE <<>>]
      /\ UNCHANGED <<nodes, regNodes, levels, override, operands, visited, regLog>>

Add == \E i, j \in 1..Len(operands) : AddCall(i, j)

\* sum(operands[1:], operands[0]), as aggregate folds the feedbacks
SumOperands ==
  LET r == SumFrom(nodes, Head(operands), Tail(operands))
  IN  /\ last' = [Last("sum", r.err, 0, <<>>, <<>>, None) EXCEPT
                     !.returned = (r.err = NoErr),
                     !.ret = IF r.err = NoErr THEN r.ret ELSE <<>>]
      /\ UNCHANGED <<nodes, regNodes, levels, override, operands, visited, regLog>>

\* a leaf that wraps a dict or a str
WrapLeaf == /\ Len(nodes) < MaxTraced
            /\ \E vt \in {"dict", "str"} : NodeInit("Node", vt, None, 0)

Keys == {"a"}

\* the values stored by item assignment: a number, or the first node
ItemValues == {IntV(1), NodeV(1)}

\* an access on node self ended as r says
AccessCall(op, r, self, args) ==
  /\ nodes' = r.nodes
  /\ regNodes' = r.regNodes
  /\ levels' = r.levels
  /\ last' = [Last(op, r.err, self, args, <<>>, None) EXCEPT
                 !.returned = (r.err = NoErr), !.ret = r.ret]
  /\ UNCHANGED <<override, operands, visited, regLog>>

GetItem == \E n \in Ids, key \in Keys :
   AccessCall("__getitem__", Node_getitem(GraphState(nodes, regNodes, levels, NoErr), n, key),
              n, <<key>>)

SetItem == \E n \in Ids, key \in Keys, value \in ItemValues :
   AccessCall("__setitem__", Node_setitem(GraphState(nodes, regNodes, levels, NoErr), n, key, value),
              n, <<key>>)

DelItem == \E n \in Ids, key \in Keys :
   AccessCall("__delitem__", Node_delitem(GraphState(nodes, regNodes, levels, NoErr), n, key),
              n, <<key>>)

Contains == \E n \in Ids, key \in Keys :
   AccessCall("__contains__", Node_contains(GraphState(nodes, regNodes, levels, NoErr), n, key),
              n, <<key>>)

Length == \E n \in Ids :
   AccessCall("__len__", Node_len(GraphState(nodes, regNodes, levels, NoErr), n), n, <<>>)

Iterate == \E n \in Ids :
   AccessCall("__iter__", Node_iter(GraphState(nodes, regNodes, levels, NoErr), n), n, <<>>)

GetAttr == \E n \in Ids, name \in AttrNames :
   AccessCall("__getattr__", Node_getattr(GraphState(nodes, regNodes, levels, NoErr), n, name),
              n, <<name>>)

\* propagator(child) on a NodePropagator
CollectCall(child) ==
  LET r == NodePropagator_call(override, nodes, child)
  IN  /\ last' = [op |-> "collect", err |-> r.err, self |-> child, args |-> <<>>,
                  kw |-> <<>>, name |-> None, ran |-> r.ran,
                  returned |-> (r.err = NoErr), ret |-> r.ret]
      /\ UNCHANGED <<nodes, regNodes, levels, override, operands, visited, regLog>>

Collect == \E child \in Ids : CollectCall(child)

\* an operation node of either description over at most one existing node is
\* traced while no backward pass is under way
BuildOp ==
  /\ TotalFeedback(nodes) = 0
  /\ visited = <<>>
  /\ \E d \in Descriptions, av \in SeqsUpTo(Ids, 1) :
        MessageNodeInit("dict", None, 0, d, av, <<>>)

\* the user feedback a pass is seeded with: a falsy and a truthy value
PassSeeds == {IntV(0), StrV(<<"A">>)}

\* a pass begins: one "user" feedback on one operation node
SeedPass ==
  /\ TotalFeedback(nodes) = 0
  /\ visited = <<>>
  /\ \E n \in {m \in Ids : nodes[m].kind = "MessageNode"}, u \in PassSeeds :
        DepositFeedback(n, UserKey, u)

\* one step of the backward pass with a NodePropagator: it is invoked on a
\* node that holds feedback and was not visited, and its results are deposited
CollectVisit(n) ==
  /\ ~InList(n, visited)
  /\ Len(nodes[n].feedback) > 0
  /\ LET r == NodePropagator_call(override, nodes, n)
     IN  /\ last' = [op |-> "collect", err |-> r.err, self |-> n, args |-> <<>>,
                     kw |-> <<>>, name |-> None, ran |-> r.ran,
                     returned |-> (r.err = NoErr), ret |-> r.ret]
         /\ IF r.err = NoErr
            THEN /\ nodes' = DepositAll(nodes, n, nodes[n].parents, r.ret)
                 /\ visited' = Append(visited, n)
            ELSE UNCHANGED <<nodes, visited>>
  /\ UNCHANGED <<regNodes, levels, override, operands, regLog>>

CollectBackward == \E n \in Ids : CollectVisit(n)

\* propagator.register(operator_name, fn) for either operator, the call logged
RegisterLogged ==
  /\ Len(regLog) < MaxRegs
  /\ \E d \in Descriptions, fn \in OverrideFns :
        /\ RegisterCall(get_op_name(d), fn)
        /\ regLog' = Append(regLog, [k |-> get_op_name(d), fn |-> fn])

\* an override for the subtract operator is installed or replaced
Register == /\ \E fn \in OverrideFns : RegisterCall(get_op_name(SubtractDescription), fn)
            /\ UNCHANGED regLog

Propagate == \E child \in Ids : PropagatorCall(child)

Init ==
  /\ nodes = <<>>
  /\ regNodes = <<>>
  /\ levels = <<>>
  /\ override = <<>>
  /\ last = Last("init", NoErr, 0, <<>>, <<>>, None)
  /\ operands = <<>>
  /\ visited = <<>>
  /\ regLog = <<>>

\* MessageNode(value, mapping, args=args) on graph state g: the state it leaves
Constructed(g, mapping, args) ==
  LET id == Len(g.nodes) + 1
      g1 == register([g EXCEPT !.nodes = Append(@, NewObject("MessageNode", "dict", None, 0))], id)
  IN  AddChildren([g1 EXCEPT !.nodes[id].mapping = mapping], id, args)

\* d = add(); e = add(d); g = subtract(d): node 1 consumed by nodes 2 and 3
FanGraph ==
  LET d == Constructed(GraphState(<<>>, <<>>, <<>>, NoErr), AddDescription, <<>>)
      e == Constructed(d, AddDescription, <<1>>)
  IN  Constructed(e, SubtractDescription, <<1>>)

InitFan ==
  /\ nodes = FanGraph.nodes
  /\ regNodes = FanGraph.regNodes
  /\ levels = FanGraph.levels
  /\ override = <<>>
  /\ last = Last("init", NoErr, 0, <<>>, <<>>, None)
  /\ operands = <<>>
  /\ visited = <<>>
  /\ regLog = <<>>

\* the fan, and two NodeFeedback objects over its nodes
InitAdd ==
  /\ nodes = FanGraph.nodes
  /\ regNodes = FanGraph.regNodes
  /\ levels = FanGraph.levels
  /\ override = <<>>
  /\ last = Last("init", NoErr, 0, <<>>, <<>>, None)
  /\ operands \in {<<a, b>> : a \in NodeFeedbacks(MaxGraph), b \in NodeFeedbacks(MaxGraph)}
  /\ visited = <<>>
  /\ regLog = <<>>

\* the fan, and three NodeFeedback objects over its nodes
InitAdd3 ==
  /\ nodes = FanGraph.nodes
  /\ regNodes = FanGraph.regNodes
  /\ levels = FanGraph.levels
  /\ override = <<>>
  /\ last = Last("init", NoErr, 0, <<>>, <<>>, None)
  /\ operands \in {<<a, b, c>> : a \in NodeFeedbacks(MaxGraph3), b \in NodeFeedbacks(MaxGraph3),
                                  c \in NodeFeedbacks(MaxGraph3)}
  /\ visited = <<>>
  /\ regLog = <<>>

\* node construction and direct edge addition
Next == MakeLeaf \/ MakeOp \/ AddChild \/ AddParent

Spec == Init /\ [][Next]_vars

\* node construction through the constructors only
NextCtor == NewNode \/ CopyNode \/ NewParameterNode \/ NewMessageNode

SpecCtor == Init /\ [][NextCtor]_vars

\* a graph, feedback queued on its nodes, and a SumPropagator called on them
NextProp == TraceLeaf \/ TraceOp \/ Deposit \/ Register \/ Propagate

SpecProp == Init /\ [][NextProp]_vars

\* feedback queued on the nodes of the fan, and the propagation rules applied
NextFan == Deposit \/ DepositNodeFeedback \/ Propagate \/ Aggregate

SpecFan == InitFan /\ [][NextFan]_vars

\* backward passes over the fan with a SumPropagator
NextBackward == ZeroFeedback \/ Seed \/ Backward

SpecBackward == InitFan /\ [][NextBackward]_vars

\* NodeFeedback.__add__ on two operands, in either order and on one twice
NextAdd == Add

SpecAdd == InitAdd /\ [][NextAdd]_vars

\* three operands summed left to right
NextAdd3 == SumOperands

SpecAdd3 == InitAdd3 /\ [][NextAdd3]_vars

\* a traced graph whose nodes are read and written like dicts
NextAccess == WrapLeaf \/ TraceOp \/ GetItem \/ SetItem \/ DelItem \/ Contains
              \/ Length \/ Iterate \/ GetAttr

SpecAccess == Init /\ [][NextAccess]_vars

\* feedback queued on the nodes of the fan, and a NodePropagator called on them
NextCollect == Deposit \/ DepositNodeFeedback \/ Collect

SpecCollect == InitFan /\ [][NextCollect]_vars

\* graphs of operation nodes, and backward passes over them with a
\* NodePropagator, each seeded at one node
NextPass == BuildOp \/ ZeroFeedback \/ SeedPass \/ CollectBackward

SpecPass == Init /\ [][NextPass]_vars

\* overrides registered on a propagator that is called on the nodes of the fan
NextDispatch == RegisterLogged \/ Propagate

SpecDispatch == InitFan /\ [][NextDispatch]_vars

\* ------------------------------------------------------------------ graph facts
RECURSIVE ReachFrom(_, _)
ReachFrom(ns, S) ==
  LET T == S \cup UNION {ChildSet(ns, n) : n \in S}
  IN  IF T = S THEN S ELSE ReachFrom(ns, T)

\* the nodes reachable from n by one or more children edges
Descendants(ns, n) == ReachFrom(ns, ChildSet(ns, n))

Distinct(s) == \A i, j \in 1..Len(s) : i # j => s[i] # s[j]

Ctors == {"Node", "ParameterNode", "MessageNode"}

\* ------------------------------------------------------------------ claims

\* C1: after every construction step, for every edge between an operation
\* node and one of its argument nodes (argument in node.children), the
\* operation node's level is strictly greater than the argument's level.
C1_LevelMonotone ==
  \A p \in Ids : \A i \in 1..Len(nodes[p].children) :
     nodes[p].level > nodes[nodes[p].children[i]].level

\* C2: all constructed nodes have pairwise distinct names of the form
\* base:suffix, no registration overwrites an earlier node's Registry entry,
\* and Registry.get(n.name) returns n for every constructed node n.
C2_NamesDistinctAndRegistered ==
  /\ \A i, j \in Ids : i # j => nodes[i].name # nodes[j].name
  /\ \A i \in Ids : Len(Split(nodes[i].name)) = 2 /\ RegistryGet(nodes[i].name) = i

\* C3: under construction through the constructors alone, no node is
\* reachable from itself by following children edges.
C3_Acyclic == \A n \in Ids : n \notin Descendants(nodes, n)

\* an operation node consumes an operation node that consumes a third node
C3_Witness ==
  /\ \E a, b, c \in Ids : InList(b, nodes[a].children) /\ InList(c, nodes[b].children)
  /\ C3_Acyclic

\* C4: add_child(child) on a node that already has that edge fails by
\* assertion and leaves every node's parents, children and level and the
\* Registry unchanged.
C4_DuplicateEdgeRejected ==
  [][(/\ last'.op = "add_child"
      /\ InList(last'.args[1], nodes[last'.self].children)
      /\ InList(last'.self, nodes[last'.args[1]].parents))
     => (/\ last'.err = "AssertionError"
         /\ nodes' = nodes
         /\ levels' = levels
         /\ regNodes' = regNodes)]_vars

\* a duplicate add_child was rejected, in a graph whose level buckets are all
\* occupied (so the assertion that failed is the duplicate-edge one)
C4_Witness ==
  /\ last.op = "add_child"
  /\ last.err = "AssertionError"
  /\ InList(last.args[1], nodes[last.self].children)
  /\ InList(last.self, nodes[last.args[1]].parents)
  /\ \A k \in DOMAIN levels : Len(levels[k]) > 0

\* C5: an add_child or add_parent call that would make a node its own
\* ancestor (self-parenting, or p.add_child(c) with p reachable from c through
\* children edges) fails by assertion and adds no edge.
C5_CycleRejected ==
  [][(/\ last'.op \in {"add_child", "add_parent"}
      /\ LET p == IF last'.op = "add_child" THEN last'.self ELSE last'.args[1]
             c == IF last'.op = "add_child" THEN last'.args[1] ELSE last'.self
         IN  p = c \/ p \in Descendants(nodes, c))
     => (/\ last'.err = "AssertionError"
         /\ \A n \in Ids : /\ nodes'[n].parents = nodes[n].parents
                           /\ nodes'[n].children = nodes[n].children)]_vars

\* C6: constructing an operation node with k >= 0 distinct existing argument
\* nodes succeeds; afterwards its children list is the positional arguments
\* in order followed by the keyed values, and each argument's parents list
\* contains the new node exactly once.
C6_ConstructionSucceeds ==
  (/\ last.op = "MessageNode"
   /\ Len(Split(last.name)) = 2
   /\ Distinct(last.args \o last.kw))
  => /\ last.err = NoErr
     /\ last.self \in Ids
     /\ nodes[last.self].children = last.args \o last.kw
     /\ \A i \in 1..Len(last.args \o last.kw) :
          Count(last.self, nodes[(last.args \o last.kw)[i]].parents) = 1

\* C7: after a completed level reassignment, every Registry level bucket
\* with index between 0 and the highest occupied level is non-empty.
C7_NoEmptyLevel ==
  (/\ last.op \in {"add_child", "add_parent", "MessageNode"}
   /\ last.err = NoErr
   /\ Len(last.args) + Len(last.kw) > 0)
  => \A k \in DOMAIN levels : \A j \in 0..k :
        Len(levels[k]) > 0 => (j \in DOMAIN levels /\ Len(levels[j]) > 0)

\* a node has moved from bucket 0 to bucket 1 and the call returned
C7_Witness ==
  /\ last.op \in {"add_child", "add_parent", "MessageNode"}
  /\ last.err = NoErr
  /\ Len(last.args) + Len(last.kw) > 0
  /\ 1 \in DOMAIN levels
  /\ InList(IF last.op = "add_parent" THEN last.args[1] ELSE last.self, levels[1])

\* C8: registering a node whose name does not split into exactly two
\* ':'-separated parts fails by assertion and leaves the Registry's name
\* table and level buckets unchanged.
C8_MalformedNameRejected ==
  [][(last'.op \in Ctors /\ Len(Split(last'.name)) # 2)
     => (/\ last'.err = "AssertionError"
         /\ regNodes' = regNodes
         /\ levels' = levels)]_vars

\* a construction with name "x:y" was rejected while the Registry held nodes
C8_Witness ==
  /\ last.op \in Ctors
  /\ Len(Split(last.name)) = 3
  /\ last.err = "AssertionError"
  /\ Len(nodes) > 0
  /\ DOMAIN regNodes # {}

\* C9: whenever a propagator call on an operation node returns, with the
\* default rule or with a registered override, the returned mapping's key set
\* is exactly the node's parents.
C9_KeysExactlyParents ==
  (last.op = "propagate" /\ last.returned)
  => DOMAIN last.ret = ParentSet(nodes, last.self)

\* C10: a propagator call on a node one of whose feedback entries holds
\* more than one feedback object fails by assertion before any propagation
\* rule, override or default, is run, and returns no feedback.
C10_LongFeedbackRejected ==
  (/\ last.op = "propagate"
   /\ \E i \in 1..Len(nodes[last.self].feedback) : Len(nodes[last.self].feedback[i].v) > 1)
  => (/\ last.err = "AssertionError"
      /\ last.ran = "none"
      /\ ~last.returned
      /\ last.ret = <<>>)

\* the propagator was called on an operation node that has a parent and two
\* feedback objects queued under one key
C10_Witness ==
  /\ last.op = "propagate"
  /\ nodes[last.self].kind = "MessageNode"
  /\ nodes[last.self].parents # <<>>
  /\ \E i \in 1..Len(nodes[last.self].feedback) : Len(nodes[last.self].feedback[i].v) = 2
  /\ last.err = "AssertionError"

\* the rule registered last under operator name k, the default rule if none
MostRecent(k) ==
  LET at == {i \in 1..Len(regLog) : regLog[i].k = k}
  IN  IF at = {} THEN "_propagate"
      ELSE regLog[CHOOSE i \in at : \A j \in at : j <= i].fn

OpTokens == {"add", "subtract"}

\* C11: after any sequence of register calls, a propagator call that gets as
\* far as propagate, on a node whose description begins with the bracketed
\* token [k], runs exactly the function registered last under k, and the
\* default _propagate exactly when nothing is registered under k.
C11_LastRegistrationWins ==
  \A k \in OpTokens :
    (/\ last.op = "propagate"
     /\ nodes[last.self].kind = "MessageNode"
     /\ \A i \in 1..Len(nodes[last.self].feedback) : Len(nodes[last.self].feedback[i].v) <= 1
     /\ SubSeq(nodes[last.self].mapping, 1, 3) = <<"[", k, "]">>)
    => last.ran = MostRecent(<<k>>)

\* two different functions were registered under "subtract" and the
\* propagator was called on the subtract node
C11_Witness ==
  /\ last.op = "propagate"
  /\ SubSeq(nodes[last.self].mapping, 1, 3) = <<"[", "subtract", "]">>
  /\ Len(regLog) = 2
  /\ regLog[1].k = <<"subtract">> /\ regLog[2].k = <<"subtract">>
  /\ regLog[1].fn # regLog[2].fn
  /\ last.ran = regLog[2].fn

\* the first n entries of a feedback map reduced left to right: numbers
\* added, strings concatenated
RECURSIVE Reduce(_, _)
Reduce(fb, n) ==
  IF n = 1 THEN fb[1].v[1]
  ELSE LET r == Reduce(fb, n - 1)
           x == fb[n].v[1]
       IN  IF x.t = "str" THEN StrV(r.s \o x.s) ELSE IntV(r.i + x.i)

\* C12: when SumPropagator's default rule returns, every parent of the node
\* gets one and the same value: the single "user" value if "user" is the only
\* key and holds one value, otherwise the sum (numbers) or concatenation
\* (strings) of the single values of all entries of the feedback map.
C12_SameValueToEveryParent ==
  (last.op = "propagate" /\ last.ran = "_propagate" /\ last.returned)
  => LET fb == nodes[last.self].feedback
         expected == IF Len(fb) = 1 /\ fb[1].k = UserKey /\ Len(fb[1].v) = 1
                     THEN fb[1].v[1]
                     ELSE Reduce(fb, Len(fb))
     IN  /\ DOMAIN last.ret = ParentSet(nodes, last.self)
         /\ \A p \in ParentSet(nodes, last.self) : last.ret[p] = expected

\* the default rule returned on a node with two parents and two numbers queued
C12_Witness ==
  /\ last.op = "propagate" /\ last.ran = "_propagate" /\ last.returned
  /\ Len(nodes[last.self].parents) = 2
  /\ Len(nodes[last.self].feedback) = 2
  /\ \A p \in ParentSet(nodes, last.self) : last.ret[p] = IntV(2)

\* node n holds exactly one "user" feedback, a string
SeededStr(n) ==
  /\ Len(nodes[n].feedback) = 1
  /\ nodes[n].feedback[1].k = UserKey
  /\ Len(nodes[n].feedback[1].v) = 1
  /\ nodes[n].feedback[1].v[1].t = "str"

\* C13: under SumPropagator, when node d is consumed by two operation nodes
\* e and g that are seeded with user strings and both have been propagated
\* from, then with equal seeds s the feedback d holds reduces to s
\* concatenated with s, and with unequal seeds the propagation from d does
\* not succeed.
C13_FanInConcatenates ==
  \A d, e, g \in Ids :
    (/\ e # g
     /\ InList(d, nodes[e].children) /\ InList(d, nodes[g].children)
     /\ SeededStr(e) /\ SeededStr(g)
     /\ InList(e, visited) /\ InList(g, visited))
    => LET s == nodes[e].feedback[1].v[1]
           t == nodes[g].feedback[1].v[1]
       IN  IF s = t
           THEN /\ Len(nodes[d].feedback) > 0
                /\ \A i \in 1..Len(nodes[d].feedback) : Len(nodes[d].feedback[i].v) = 1
                /\ Reduce(nodes[d].feedback, Len(nodes[d].feedback)) = StrV(s.s \o s.s)
           ELSE ~InList(d, visited)

\* C14: when the default rule of SumPropagator is reached on a node without
\* "user" feedback whose feedback values are not all of one runtime type,
\* the call fails and returns no feedback to any parent.
C14_MixedTypesRejected ==
  (/\ last.op = "propagate"
   /\ nodes[last.self].kind = "MessageNode"
   /\ LET fb == nodes[last.self].feedback
      IN  /\ ~HasKey(fb, UserKey)
          /\ \A i \in 1..Len(fb) : Len(fb[i].v) = 1
          /\ \E i, j \in 1..Len(fb) : fb[i].v[1].t # fb[j].v[1].t)
  => (last.err # NoErr /\ ~last.returned /\ last.ret = <<>>)

\* the default rule ran on a node that holds one string and one number
C14_Witness ==
  /\ last.op = "propagate" /\ last.ran = "_propagate"
  /\ LET fb == nodes[last.self].feedback
     IN  /\ Len(fb) = 2
         /\ {fb[1].v, fb[2].v} = {<<IntV(1)>>, <<StrV(<<"A">>)>>}
  /\ last.err = "AssertionError"

\* C15: a + b on NodeFeedback objects fails exactly when both user
\* feedbacks are None or both are non-None and unequal; in every other case
\* it returns a NodeFeedback.
C15_AddFailsExactlyOnConflict ==
  (last.op = "__add__")
  => LET a == operands[last.args[1]].user_feedback
         b == operands[last.args[2]].user_feedback
         conflict == (a = NoneV /\ b = NoneV) \/ (a # NoneV /\ b # NoneV /\ a # b)
     IN  /\ (last.err # NoErr) <=> conflict
         /\ ~conflict => (last.returned /\ last.ret.t = "NodeFeedback")

\* a + b was tried with user feedbacks 0 and "A" and failed
C15_Witness ==
  /\ last.op = "__add__"
  /\ operands[last.args[1]].user_feedback = IntV(0)
  /\ operands[last.args[2]].user_feedback = StrV(<<"A">>)
  /\ last.err = "AssertionError"

NoRepeatedName(ns, graph) ==
  \A i, j \in 1..Len(graph) : i # j => ns[graph[i].node].name # ns[graph[j].node].name

Ascending(graph) == \A i, j \in 1..Len(graph) : i < j => graph[i].level <= graph[j].level

\* C16: for a NodeFeedback f with non-None user feedback and no repeated
\* node name, f + f has f's user feedback, the same set of node names as f,
\* no duplicate name, and ascending levels whenever f's levels ascend.
C16_SelfAddIdempotent ==
  (/\ last.op = "__add__"
   /\ operands[last.args[1]] = operands[last.args[2]]
   /\ operands[last.args[1]].user_feedback # NoneV
   /\ NoRepeatedName(nodes, operands[last.args[1]].graph))
  => LET f == operands[last.args[1]]
     IN  /\ last.returned
         /\ last.ret.user_feedback = f.user_feedback
         /\ Names(nodes, last.ret.graph) = Names(nodes, f.graph)
         /\ NoRepeatedName(nodes, last.ret.graph)
         /\ Ascending(f.graph) => Ascending(last.ret.graph)

\* f + f was computed for an f of two differently named nodes, levels ascending
C16_Witness ==
  /\ last.op = "__add__"
  /\ last.args[1] = last.args[2]
  /\ last.returned
  /\ LET f == operands[last.args[1]]
     IN  /\ f.user_feedback = IntV(0)
         /\ Len(f.graph) = 2
         /\ NoRepeatedName(nodes, f.graph)
         /\ f.graph[1].level < f.graph[2].level
         /\ last.ret.graph = f.graph

SameUserAndNames(x, y) ==
  /\ x.user_feedback = y.user_feedback
  /\ Names(nodes, x.graph) = Names(nodes, y.graph)

\* C17: for all NodeFeedback a, b, c among the operands, whenever both sides
\* are defined, a + b and b + a have the same user feedback and the same set
\* of node names, and so do (a + b) + c and a + (b + c).
C17_CommutativeAssociative ==
  (last.op = "sum")
  => \A i, j, k \in 1..Len(operands) :
       LET a == operands[i]
           b == operands[j]
           c == operands[k]
           ab == NodeFeedback_add(nodes, a, b)
           ba == NodeFeedback_add(nodes, b, a)
           bc == NodeFeedback_add(nodes, b, c)
           ab_c == IF ab.err = NoErr THEN NodeFeedback_add(nodes, ab.ret, c) ELSE ab
           a_bc == IF bc.err = NoErr THEN NodeFeedback_add(nodes, a, bc.ret) ELSE bc
       IN  /\ (ab.err = NoErr /\ ba.err = NoErr) => SameUserAndNames(ab.ret, ba.ret)
           /\ (ab_c.err = NoErr /\ a_bc.err = NoErr) => SameUserAndNames(ab_c.ret, a_bc.ret)

\* C18: NodePropagator.aggregate on an empty feedback map fails, and a
\* SumPropagator call that reaches the default rule on a node with an empty
\* feedback map fails; neither returns a value.
C18_EmptyFeedbackFails ==
  /\ (last.op = "aggregate" /\ Len(nodes[last.self].feedback) = 0)
     => (last.err # NoErr /\ ~last.returned)
  /\ (/\ last.op = "propagate"
      /\ nodes[last.self].kind = "MessageNode"
      /\ get_op_name(nodes[last.self].mapping) \notin DOMAIN override
      /\ Len(nodes[last.self].feedback) = 0)
     => (last.ran = "_propagate" /\ last.err # NoErr /\ ~last.returned /\ last.ret = <<>>)

\* SumPropagator was called on the node with two parents while it held no
\* feedback, and another node held some
C18_Witness ==
  /\ last.op = "propagate"
  /\ Len(nodes[last.self].parents) = 2
  /\ Len(nodes[last.self].feedback) = 0
  /\ \E n \in Ids : Len(nodes[n].feedback) > 0
  /\ last.ran = "_propagate"
  /\ last.err = "AssertionError"

AccessOps == {"__getitem__", "__setitem__", "__delitem__", "__contains__", "__len__",
              "__iter__", "__getattr__"}

\* C20: an item get, set or delete, a containment test, a length or an
\* iteration on a node, successful or not, leaves every node's parents,
\* children and level and the Registry's name table and level buckets as
\* they were, and creates no node.
C20_AccessLeavesGraph ==
  [][(last'.op \in AccessOps)
     => (/\ Len(nodes') = Len(nodes)
         /\ \A n \in Ids : /\ nodes'[n].parents = nodes[n].parents
                           /\ nodes'[n].children = nodes[n].children
                           /\ nodes'[n].level = nodes[n].level
         /\ regNodes' = regNodes
         /\ levels' = levels)]_vars

\* an item was read from an operation node that consumes another node
C20_Witness ==
  /\ last.op = "__getitem__"
  /\ last.returned
  /\ Len(nodes[last.self].children) = 1
  /\ last.ret = NodeV(1)

\* C21: after every completed construction step, every registered node
\* appears in exactly one Registry level bucket, once, and the index of that
\* bucket equals the node's own level.
C21_BucketIsLevel ==
  (last.op \in Ctors /\ last.err = NoErr)
  => \A n \in Ids :
       LET at == {k \in DOMAIN levels : InList(n, levels[k])}
       IN  /\ Cardinality(at) = 1
           /\ \A k \in at : Count(n, levels[k]) = 1 /\ k = nodes[n].level

\* the longest children-path from n down to a leaf
RECURSIVE Height(_, _)
Height(ns, n) ==
  IF Len(ns[n].children) = 0 THEN 0
  ELSE 1 + (CHOOSE h \in {Height(ns, c) : c \in ChildSet(ns, n)} :
               \A c \in ChildSet(ns, n) : Height(ns, c) <= h)

\* C22: after an operation node is constructed from its argument nodes, its
\* level is 1 plus the maximum level of its arguments, 0 without arguments,
\* and that is the length of the longest children-path down to a leaf.
C22_LevelIsHeight ==
  (last.op = "MessageNode" /\ last.err = NoErr)
  => LET av == last.args \o last.kw
         expected == IF Len(av) = 0 THEN 0
                     ELSE 1 + (CHOOSE m \in {nodes[av[i]].level : i \in 1..Len(av)} :
                                 \A i \in 1..Len(av) : nodes[av[i]].level <= m)
     IN  /\ nodes[last.self].level = expected
         /\ nodes[last.self].level = Height(nodes, last.self)

\* C27: NodePropagator's default rule on a node whose feedback has the
\* single key "user" with exactly one value u returns, for every parent, one
\* and the same NodeFeedback whose user feedback is u and whose graph holds
\* one (level, node) pair for each parent and one for the node itself.
C27_SeedFeedback ==
  (/\ last.op = "collect"
   /\ nodes[last.self].kind = "MessageNode"
   /\ LET fb == nodes[last.self].feedback
      IN  Len(fb) = 1 /\ fb[1].k = UserKey /\ Len(fb[1].v) = 1)
  => LET u == nodes[last.self].feedback[1].v[1]
         ps == nodes[last.self].parents
     IN  /\ last.returned
         /\ DOMAIN last.ret = ParentSet(nodes, last.self)
         /\ \A p, q \in ParentSet(nodes, last.self) : last.ret[p] = last.ret[q]
         /\ \A p \in ParentSet(nodes, last.self) :
              /\ last.ret[p].t = "NodeFeedback"
              /\ last.ret[p].user_feedback = u
              /\ Len(last.ret[p].graph) = Len(ps) + 1
              /\ \A n \in ParentSet(nodes, last.self) \cup {last.self} :
                   Count(Entry(nodes[n].level, n), last.ret[p].graph) = 1

\* the rule returned on the seeded node that has two parents
C27_Witness ==
  /\ last.op = "collect" /\ last.returned
  /\ Len(nodes[last.self].parents) = 2
  /\ nodes[last.self].feedback = <<[k |-> UserKey, v |-> <<StrV(<<"A">>)>>]>>
  /\ \A p \in ParentSet(nodes, last.self) :
       last.ret[p].user_feedback = StrV(<<"A">>) /\ Len(last.ret[p].graph) = 3

C28_UnionOfNames ==
  (/\ last.op = "collect" /\ last.ran = "_propagate" /\ last.returned
   /\ ~HasKey(nodes[last.self].feedback, UserKey))
  => LET fb == nodes[last.self].feedback
         received == UNION {Names(nodes, fb[i].v[1].graph) : i \in 1..Len(fb)}
         own == {nodes[n].name : n \in ParentSet(nodes, last.self) \cup {last.self}}
     IN  /\ DOMAIN last.ret = ParentSet(nodes, last.self)
         /\ \A p, q \in ParentSet(nodes, last.self) : last.ret[p] = last.ret[q]
         /\ \A p \in ParentSet(nodes, last.self) :
              /\ last.ret[p].t = "NodeFeedback"
              /\ Names(nodes, last.ret[p].graph) = received \cup own
              /\ NoRepeatedName(nodes, last.ret[p].graph)

\* C23: in a backward pass with NodePropagator seeded with one user
\* feedback value u at one node, u not None, every NodeFeedback delivered to
\* any node, at any depth from the seed, carries user feedback equal to u.
C23_UserFeedbackCarried ==
  \A s \in Ids :
    (/\ HasKey(nodes[s].feedback, UserKey)
     /\ Lookup(nodes[s].feedback, UserKey)[1] # NoneV)
    => \A n \in Ids : \A i \in 1..Len(nodes[n].feedback) :
         (nodes[n].feedback[i].k # UserKey)
         => \A j \in 1..Len(nodes[n].feedback[i].v) :
              nodes[n].feedback[i].v[j].user_feedback
                = Lookup(nodes[s].feedback, UserKey)[1]

\* C24: when a + b on NodeFeedback succeeds with exactly one operand
\* carrying non-None user feedback v, the result's user feedback is v, for
\* every non-None v, falsy values such as 0 included, in either operand order.
C24_OneUserFeedbackKept ==
  (/\ last.op = "__add__" /\ last.returned
   /\ (operands[last.args[1]].user_feedback = NoneV)
        # (operands[last.args[2]].user_feedback = NoneV))
  => LET a == operands[last.args[1]].user_feedback
         b == operands[last.args[2]].user_feedback
     IN  last.ret.user_feedback = IF a = NoneV THEN b ELSE a

\* C26: for NodeFeedback operands a and b that each contain no repeated
\* node name, (a + b).graph contains every node name occurring in a.graph or
\* b.graph exactly once, and for a name present in both operands the entry
\* kept is the right operand's.
C26_UnionKeepsRight ==
  (/\ last.op = "__add__" /\ last.returned
   /\ NoRepeatedName(nodes, operands[last.args[1]].graph)
   /\ NoRepeatedName(nodes, operands[last.args[2]].graph))
  => LET a == operands[last.args[1]].graph
         b == operands[last.args[2]].graph
         g == last.ret.graph
     IN  /\ Names(nodes, g) = Names(nodes, a) \cup Names(nodes, b)
         /\ NoRepeatedName(nodes, g)
         /\ \A i \in 1..Len(g) :
              IF nodes[g[i].node].name \in Names(nodes, b)
              THEN InList(g[i], b) ELSE InList(g[i], a)

\* a + b returned for operands that share a name under different entries
\* and each hold a name the other lacks; the shared name has b's entry
C26_Witness ==
  /\ last.op = "__add__" /\ last.returned
  /\ LET a == operands[last.args[1]].graph
         b == operands[last.args[2]].graph
     IN  /\ Len(a) = 2 /\ Len(b) = 2
         /\ NoRepeatedName(nodes, a) /\ NoRepeatedName(nodes, b)
         /\ InList(Entry(0, 2), a) /\ InList(Entry(0, 1), a)
         /\ InList(Entry(1, 3), b) /\ InList(Entry(0, 1), b)
         /\ Len(last.ret.graph) = 2
         /\ InList(Entry(1, 3), last.ret.graph)

\* C29: in every reachable state, including after an add_child call or a
\* node construction that failed part-way, node p occurs in c.parents if and
\* only if c occurs in p.children, and each such occurrence is single.
C29_AdjacencyConsistent ==
  \A p, c \in Ids :
    /\ Count(p, nodes[c].parents) = Count(c, nodes[p].children)
    /\ Count(p, nodes[c].parents) <= 1

\* an add_child call raised after it had appended its edge to both lists
C29_Witness ==
  /\ last.op = "add_child"
  /\ last.err = "ValueError"
  /\ Len(nodes[last.self].children) = 2
  /\ nodes[last.self].children[2] = last.args[1]
  /\ InList(last.self, nodes[last.args[1]].parents)

\* C30: when constructing an operation node fails, the graph is left as it
\* was before the construction began: the failed node is in neither the
\* Registry's name table nor any level bucket, and it is in no pre-existing
\* node's parents list.
C30_FailedConstructionLeavesGraph ==
  (last.op = "MessageNode" /\ last.err # NoErr)
  => \/ last.self = 0
     \/ /\ \A nm \in DOMAIN regNodes : regNodes[nm] # last.self
        /\ \A k \in DOMAIN levels : ~InList(last.self, levels[k])
        /\ \A n \in Ids : ~InList(last.self, nodes[n].parents)

====
